---- MODULE Spec2Model ----
(***************************************************************************)
(* Model of the OBS per-scene replay plugin (src/OBSReplayPlugin.cpp).     *)
(*                                                                         *)
(* A frame is a record; its plane buffers are the heap cells named by the  *)
(* frame's id: the planes of frame f are allocated iff f.id \in live.      *)
(* A ring is the struct FrameBuffer: two deques and max_frames.            *)
(* Threads are the host's UI thread, its raw-video thread, an audio        *)
(* thread, the websocket transport thread and one detached worker per      *)
(* ReplayScene request.  buffer_mutex is a std::mutex: locking it again    *)
(* from the thread that owns it is undefined, and the builds of this code  *)
(* either block for ever, throw std::system_error out of the callback      *)
(* (which terminates the process), or let the nested lock through.         *)
(***************************************************************************)
EXTENDS Integers, Sequences, FiniteSets, TLC

\* ---------------------------------------------------------------- bounds
MaxSeconds  == 2     \* constructor argument max_seconds is drawn from 0..MaxSeconds
MaxFps      == 1     \* constructor argument fps is drawn from 1..MaxFps
MaxCalls    == 4     \* number of FrameBuffer calls made in one run of SpecRing
MaxVideo    == 2     \* raw video deliveries in one run
MaxAudio    == 1     \* audio deliveries that find a ring in one run
MaxToggles  == 3     \* set_plugin_enabled calls that change the flag
MaxSwitches == 1     \* program scene changes made by the user
MaxRequests == 2     \* ReplayScene requests, one detached worker each
MaxSaves    == 1     \* SaveAllReplays requests
MaxLogs     == 12    \* log_error calls made in one run of SpecLog
MaxChanges  == 2     \* SCENE_CHANGED events handled by on_scene_change

\* ------------------------------------------------------ program constants
BufferSeconds == 30  \* FrameBuffer(30, 60)
BufferFps     == 60
max_errors    == 10

VARIABLES
  plugin_enabled,            \* bool plugin_enabled
  plugin_fully_initialized,  \* set by the FINISHED_LOADING handler
  scene_buffers,             \* std::map<std::string, FrameBuffer>
  buffer_mutex,              \* the thread that owns buffer_mutex, or NoThread
  error_log,                 \* std::deque<std::string> error_log
  previous_scene_name,       \* std::string previous_scene_name
  live,             \* ids of the frames whose plane buffers are allocated
  next_vid,         \* number of the next obs_source_frame to be constructed
  next_aid,         \* number of the next obs_source_audio to be constructed
  crashed,          \* the process has been killed by undefined behaviour
  program,          \* host: the current program scene
  replay_scene,     \* host: a scene named "Replay" exists
  replay_sink,      \* host: a source named "ReplaySource" exists
  video_capture,    \* host: registrations of raw_video_callback
  audio_capture,    \* host: audio_callback is registered on the audio sources
  pc,               \* position of every thread
  vloc,             \* raw_video_callback: scene_name and video_frame
  aloc,             \* audio_callback: source_name
  sloc,             \* on_save_all_replays: rings not yet visited
  wk,               \* play_replay_and_return: scene_name and the snapshots
  response,         \* response_data of the last websocket request
  req,              \* the last ReplayScene request and its number
  saves,            \* save_frames_to_file calls of the current SaveAllReplays
  events,           \* per worker: what it has done, in order
  worig,            \* per worker: the program scene when it started
  rebuilt,          \* the rebuilds done and what the last one destroyed
  ntoggle, nswitch, nsave,
  last_op,          \* the FrameBuffer call made by the last step
  calls,            \* the FrameBuffer calls made so far, in call order
  logged,           \* the messages passed to log_error in SpecLog, in call order
  emitted,          \* per worker: the frames it has output to the replay sink
  creates,          \* create_replay_scene_and_source: calls made, scenes created
  handles           \* per thread: host references acquired and released so far

coreVars == <<plugin_enabled, plugin_fully_initialized, scene_buffers, buffer_mutex,
              error_log, previous_scene_name>>
heapVars == <<live, next_vid, next_aid>>
hostVars == <<program, replay_scene, replay_sink, video_capture, audio_capture>>
thrVars  == <<pc, vloc, aloc, sloc, wk>>
histVars == <<response, req, saves, events, worig, rebuilt, ntoggle, nswitch, nsave>>
unitVars == <<last_op, calls, logged>>
sinkVars == <<emitted, creates, handles>>
vars == <<coreVars, heapVars, hostVars, thrVars, histVars, unitVars, sinkVars, crashed>>

\* ------------------------------------------------------------------ frames
NullId == <<"null", 0>>
\* std::shared_ptr<obs_source_frame>: null, or a frame with its dimensions;
\* data says whether the frame was built with at least one non-null plane.
NullFrame == [id |-> NullId, width |-> 0, height |-> 0, data |-> FALSE]
VideoFrame(i, w, h, d) == [id |-> i, width |-> w, height |-> h, data |-> d]
\* std::shared_ptr<obs_source_audio>
NullAudio == [id |-> NullId, frames |-> 0, data |-> FALSE]
AudioFrame(i, n, d) == [id |-> i, frames |-> n, data |-> d]

Dims == {<<1, 1>>, <<0, 1>>, <<1, 0>>}

SeqIds(s) == {s[i].id : i \in 1..Len(s)}

\* ------------------------------------------------------------- FrameBuffer
FrameBufferDefault == [video_frames |-> <<>>, audio_frames |-> <<>>, max_frames |-> 0]
FrameBuffer(max_seconds, fps) ==
  [video_frames |-> <<>>, audio_frames |-> <<>>, max_frames |-> max_seconds * fps]

\* FrameBuffer::clear: frees the planes of every retained frame, empties both deques.
clear_freed(fb) == SeqIds(fb.video_frames) \cup SeqIds(fb.audio_frames)
clear(fb) == [fb EXCEPT !.video_frames = <<>>, !.audio_frames = <<>>]

video_full_off_by_one(fb) == Len(fb.video_frames) > fb.max_frames

\* add_video_frame, lines 117-129: whether the eviction branch is taken.
video_full(fb) == Len(fb.video_frames) >= fb.max_frames
\* lines 131-136: the dimension test that decides the push_back.
video_valid(frame) == frame.width > 0 /\ frame.height > 0

add_video_frame_evicts_newest(fb, frame) ==
  LET evict  == video_full(fb)
      n      == Len(fb.video_frames)
      kept   == IF evict THEN SubSeq(fb.video_frames, 1, n - 1) ELSE fb.video_frames
      pushed == IF video_valid(frame) THEN Append(kept, frame) ELSE kept
  IN [fb    |-> [fb EXCEPT !.video_frames = pushed],
      freed |-> IF evict THEN {fb.video_frames[n].id} ELSE {}]

\* add_video_frame past its two early returns, on a deque that front() and
\* pop_front() are defined on.  Result: the ring and the ids whose planes
\* were passed to bfree.
add_video_frame(fb, frame) ==
  LET evict  == video_full(fb)
      kept   == IF evict THEN Tail(fb.video_frames) ELSE fb.video_frames
      pushed == IF video_valid(frame) THEN Append(kept, frame) ELSE kept
  IN [fb    |-> [fb EXCEPT !.video_frames = pushed],
      freed |-> IF evict THEN {Head(fb.video_frames).id} ELSE {}]

audio_full(fb) == Len(fb.audio_frames) >= fb.max_frames

\* add_audio_frame past its early return (lines 144-156): no validation.
add_audio_frame(fb, frame) ==
  LET evict == audio_full(fb)
      kept  == IF evict THEN Tail(fb.audio_frames) ELSE fb.audio_frames
  IN [fb    |-> [fb EXCEPT !.audio_frames = Append(kept, frame)],
      freed |-> IF evict THEN {Head(fb.audio_frames).id} ELSE {}]

get_video_frames(fb) == fb.video_frames
get_audio_frames(fb) == fb.audio_frames

\* ================================================================ threads
NoThread == <<"none", 0>>
UI       == <<"ui", 0>>
VideoT   == <<"video", 0>>
AudioT   == <<"audio", 0>>
WS       == <<"ws", 0>>
Worker(i) == <<"worker", i>>
Workers  == {Worker(i) : i \in 1..MaxRequests}
Threads  == {UI, VideoT, AudioT, WS} \cup Workers

\* ================================================================== host
REPLAY_SCENE_NAME  == "Replay"
REPLAY_SOURCE_NAME == "ReplaySource"
UserScenes   == {"A", "B"}           \* the scenes of the user's collection
AudioSources == {"A", "B", "Mic"}         \* names of the sources that deliver audio
NullStr      == "nullptr"            \* a null const char *
RequestScenes == {NullStr, "", "A"}   \* values of the request's scene field
\* the sources of type scene that obs_enum_sources reports
SceneList == UserScenes \cup (IF replay_scene THEN {REPLAY_SCENE_NAME} ELSE {})
\* obs_get_source_by_name(name) finds a scene
SceneExists(name) == name \in SceneList

EmptyMap == [k \in {} |-> FrameBufferDefault]
MapPut(m, k, v) == [x \in DOMAIN m \cup {k} |-> IF x = k THEN v ELSE m[x]]
AllRingIds(m) == UNION {clear_freed(m[k]) : k \in DOMAIN m}

NoLocals == [scene |-> "", video |-> <<>>, audio |-> <<>>, msg |-> <<>>]

\* The references a thread has taken from the host and given back: outputs
\* (obs_output_create / obs_output_release) and sources (obs_get_source_by_name,
\* obs_frontend_get_current_scene / obs_source_release); result is what the
\* thread's last save_frames_to_file met.
NoHandles == [result |-> "none", out_acq |-> 0, out_rel |-> 0, src_acq |-> 0, src_rel |-> 0]

\* The state when obs_module_load has returned: plugin_enabled is initialised
\* to true, so the set_plugin_enabled(true) of line 1029 returns at line 925.
InitBase ==
  /\ plugin_fully_initialized = FALSE
  /\ buffer_mutex = NoThread
  /\ error_log = <<>>
  /\ previous_scene_name = ""
  /\ live = {}
  /\ next_vid = 1
  /\ next_aid = 1
  /\ crashed = FALSE
  /\ program = "A"
  /\ replay_sink = FALSE
  /\ video_capture = 0
  /\ audio_capture = FALSE
  /\ pc = [t \in Threads |-> "idle"]
  /\ vloc = [scene |-> "", frame |-> NullFrame]
  /\ aloc = ""
  /\ sloc = {}
  /\ wk = [w \in Workers |-> NoLocals]
  /\ saves = <<>>
  /\ events = [w \in Workers |-> <<>>]
  /\ worig = [w \in Workers |-> ""]
  /\ rebuilt = [n |-> 0, prior |-> {}]
  /\ ntoggle = 0
  /\ nswitch = 0
  /\ nsave = 0
  /\ last_op = [name |-> "FrameBuffer", frame |-> NullFrame]
  /\ calls = <<>>
  /\ logged = <<>>
  /\ emitted = [w \in Workers |-> <<>>]
  /\ handles = [t \in Threads |-> NoHandles]

\* no websocket request has been made yet
InitCommon ==
  /\ InitBase
  /\ response = [success |-> FALSE, error |-> "none"]
  /\ req = [n |-> 0, scene |-> NullStr]

\* the scenes named "Replay" and the sources named "ReplaySource" of the host
NoCreates == creates = [calls |-> 0, scenes |-> IF replay_scene THEN 1 ELSE 0, sinks |-> 0]

Init ==
  /\ InitCommon
  /\ plugin_enabled = TRUE
  /\ scene_buffers = EmptyMap
  /\ replay_scene \in BOOLEAN    \* the collection may already hold a scene "Replay"
  /\ NoCreates

\* ==================================================== the FrameBuffer unit
\* One ring, built by FrameBuffer(max_seconds, fps), driven through its
\* public member functions by a single caller that holds no lock.
RingKey == "A"
TheRing == scene_buffers[RingKey]

InitRing ==
  /\ InitCommon
  /\ plugin_enabled \in BOOLEAN
  /\ replay_scene = FALSE
  /\ NoCreates
  /\ \E s \in 0..MaxSeconds, f \in 1..MaxFps :
       scene_buffers = [k \in {RingKey} |-> FrameBuffer(s, f)]

CanCall == ~crashed /\ Len(calls) < MaxCalls

Called(name, frame) ==
  /\ last_op' = [name |-> name, frame |-> frame]
  /\ calls' = Append(calls, [name |-> name, frame |-> frame])

unitFrame == <<plugin_enabled, plugin_fully_initialized, buffer_mutex, error_log,
               previous_scene_name, hostVars, thrVars, histVars, sinkVars, logged>>

\* A call add_video_frame(frame) with frame null or freshly built.
RingAddVideo ==
  /\ CanCall
  /\ \E d \in Dims, planes \in BOOLEAN, isnull \in BOOLEAN :
       LET frame == IF isnull THEN NullFrame
                    ELSE VideoFrame(<<"v", next_vid>>, d[1], d[2], planes)
           heap  == IF isnull \/ ~planes THEN live ELSE live \cup {frame.id}
       IN /\ next_vid' = next_vid + 1
          /\ Called("add_video_frame", frame)
          /\ IF ~plugin_enabled \/ isnull
               THEN \* lines 104-111: early return, nothing touched
                    /\ live' = heap
                    /\ UNCHANGED <<scene_buffers, crashed>>
             ELSE IF video_full(TheRing) /\ TheRing.video_frames = <<>>
               THEN \* front() and pop_front() on an empty deque: undefined.
                    \* The build either faults, or moves the deque's start past
                    \* its finish, so that after the push_back the deque reads
                    \* as empty again and the new frame is lost with its planes.
                    /\ crashed' \in BOOLEAN
                    /\ live' = heap
                    /\ UNCHANGED scene_buffers
             ELSE LET r == add_video_frame(TheRing, frame)
                  IN /\ scene_buffers' = [scene_buffers EXCEPT ![RingKey] = r.fb]
                     /\ live' = heap \ r.freed
                     /\ UNCHANGED crashed
  /\ UNCHANGED <<unitFrame, next_aid>>

\* A call add_audio_frame(frame).
RingAddAudio ==
  /\ CanCall
  /\ \E n \in {0, 1}, planes \in BOOLEAN, isnull \in BOOLEAN :
       LET frame == IF isnull THEN NullAudio ELSE AudioFrame(<<"a", next_aid>>, n, planes)
           heap  == IF isnull \/ ~planes THEN live ELSE live \cup {frame.id}
       IN /\ next_aid' = next_aid + 1
          /\ Called("add_audio_frame", frame)
          /\ IF ~plugin_enabled \/ isnull
               THEN /\ live' = heap
                    /\ UNCHANGED <<scene_buffers, crashed>>
             ELSE IF audio_full(TheRing) /\ TheRing.audio_frames = <<>>
               THEN /\ crashed' \in BOOLEAN
                    /\ live' = heap
                    /\ UNCHANGED scene_buffers
             ELSE LET r == add_audio_frame(TheRing, frame)
                  IN /\ scene_buffers' = [scene_buffers EXCEPT ![RingKey] = r.fb]
                     /\ live' = heap \ r.freed
                     /\ UNCHANGED crashed
  /\ UNCHANGED <<unitFrame, next_vid>>

\* A call clear().
RingClear ==
  /\ CanCall
  /\ TheRing.video_frames # <<>> \/ TheRing.audio_frames # <<>>
  /\ Called("clear", NullFrame)
  /\ live' = live \ clear_freed(TheRing)
  /\ scene_buffers' = [scene_buffers EXCEPT ![RingKey] = clear(TheRing)]
  /\ UNCHANGED <<unitFrame, next_vid, next_aid, crashed>>

NextRing == RingAddVideo \/ RingAddAudio \/ RingClear

SpecRing == InitRing /\ [][NextRing]_vars

\* ============================================================ the program
Capacity == BufferSeconds * BufferFps
VoiDims  == {<<1, 1>>}     \* voi->width, voi->height: the host's output size

At(t, loc) == ~crashed /\ pc[t] = loc
Goto(t, loc) == pc' = [pc EXCEPT ![t] = loc]

log_error_off_by_one(log, message) ==
  Append(IF Len(log) > max_errors THEN Tail(log) ELSE log, message)

\* log_error, lines 205-208, once buffer_mutex is owned.
log_error(log, message) ==
  Append(IF Len(log) >= max_errors THEN Tail(log) ELSE log, message)

\* What a lock of buffer_mutex by its owner does.
RelockOutcomes == {"deadlock", "throw", "nested"}

\* The outcomes of create_replay_scene_and_source when no scene named
\* "Replay" is found: both are created (lines 568-599); or a host creation
\* fails and what was created is released (lines 569-592), after which the
\* scene is gone, or is kept alive by the frontend's scene list.  made is
\* the number of scenes and of sources the call has added to the host.
CreateFresh ==
  {[ok |-> TRUE,  scene |-> TRUE,  sink |-> TRUE,        made |-> <<1, 1>>],
   [ok |-> FALSE, scene |-> FALSE, sink |-> replay_sink, made |-> <<0, 0>>],
   [ok |-> FALSE, scene |-> TRUE,  sink |-> replay_sink, made |-> <<1, 0>>]}

CreateReplayOutcomes_without_lookup == CreateFresh

\* create_replay_scene_and_source: the scene exists already (lines 561-565),
\* or it is created.
CreateReplayOutcomes ==
  IF replay_scene
    THEN {[ok |-> TRUE, scene |-> TRUE, sink |-> replay_sink, made |-> <<0, 0>>]}
    ELSE CreateFresh

\* the call counted, with what it added to the host
Created(o) ==
  creates' = [calls  |-> creates.calls + 1,
              scenes |-> creates.scenes + o.made[1],
              sinks  |-> creates.sinks + o.made[2]]

update_scene_buffers_keeps_rings(m) ==
  [k \in SceneList |-> IF k \in DOMAIN m THEN m[k] ELSE FrameBuffer(BufferSeconds, BufferFps)]

\* update_scene_buffers, lines 273-284: the registry after the rebuild.
update_scene_buffers(m) ==
  [k \in SceneList |-> FrameBuffer(BufferSeconds, BufferFps)]

admits_video_ignoring_flag(enabled, frame) == frame # NullFrame

\* add_video_frame, lines 104-111: the frame passes the two early returns.
admits_video(enabled, frame) == enabled /\ frame # NullFrame

admits_audio_ignoring_flag(enabled, frame) == frame # NullAudio

\* add_audio_frame, line 141.
admits_audio(enabled, frame) == enabled /\ frame # NullAudio

\* ------------------------------------------------------------ UI thread
\* set_plugin_enabled(enabled), lines 924-936 up to the first lock.
SetPluginEnabled(enabled) ==
  /\ At(UI, "idle")
  /\ ntoggle < MaxToggles
  /\ plugin_enabled # enabled
  /\ ntoggle' = ntoggle + 1
  /\ plugin_enabled' = enabled
  /\ IF enabled
       THEN /\ Goto(UI, "u_update")
            /\ UNCHANGED <<video_capture, audio_capture>>
       ELSE \* stop_video_capture, stop_audio_capture
            /\ video_capture' = IF video_capture > 0 THEN video_capture - 1 ELSE 0
            /\ audio_capture' = FALSE
            /\ Goto(UI, "u_clear")
  /\ UNCHANGED <<plugin_fully_initialized, scene_buffers, buffer_mutex, error_log,
                 previous_scene_name, heapVars, program, replay_scene, replay_sink,
                 vloc, aloc, sloc, wk, response, req, saves, events, worig, rebuilt,
                 nswitch, nsave, unitVars, sinkVars, crashed>>

\* update_scene_buffers followed by the capture starts, as called from
\* set_plugin_enabled(true) (lines 931-933) and from the FINISHED_LOADING
\* handler (lines 970-976).
UpdateSceneBuffers ==
  /\ At(UI, "u_update") \/ At(UI, "f_update")
  /\ IF plugin_enabled
       THEN /\ buffer_mutex = NoThread
            /\ scene_buffers' = update_scene_buffers(scene_buffers)
            /\ live' = live \ AllRingIds(scene_buffers)
            /\ rebuilt' = [n |-> rebuilt.n + 1, prior |-> AllRingIds(scene_buffers)]
            /\ video_capture' = video_capture + 1
            /\ audio_capture' = TRUE
       ELSE UNCHANGED <<scene_buffers, live, rebuilt, video_capture, audio_capture>>
  /\ Goto(UI, "idle")
  /\ UNCHANGED <<plugin_enabled, plugin_fully_initialized, buffer_mutex, error_log,
                 previous_scene_name, next_vid, next_aid, program, replay_scene,
                 replay_sink, vloc, aloc, sloc, wk, response, req, saves, events,
                 worig, ntoggle, nswitch, nsave, unitVars, sinkVars, crashed>>

\* clear_scene_buffers, called last by set_plugin_enabled(false).
ClearSceneBuffers ==
  /\ At(UI, "u_clear")
  /\ buffer_mutex = NoThread
  /\ live' = live \ AllRingIds(scene_buffers)
  /\ scene_buffers' = EmptyMap
  /\ Goto(UI, "idle")
  /\ UNCHANGED <<plugin_enabled, plugin_fully_initialized, buffer_mutex, error_log,
                 previous_scene_name, next_vid, next_aid, hostVars, vloc, aloc, sloc,
                 wk, histVars, unitVars, sinkVars, crashed>>

\* The OBS_FRONTEND_EVENT_FINISHED_LOADING handler, lines 959-967.
FinishedLoading ==
  /\ At(UI, "idle")
  /\ ~plugin_fully_initialized
  /\ plugin_fully_initialized' = TRUE
  /\ \E o \in CreateReplayOutcomes :
       /\ replay_scene' = o.scene
       /\ replay_sink' = o.sink
       /\ Created(o)
       /\ Goto(UI, IF o.ok THEN "f_update" ELSE "idle")
  /\ UNCHANGED <<plugin_enabled, scene_buffers, buffer_mutex, error_log,
                 previous_scene_name, heapVars, program, video_capture, audio_capture,
                 vloc, aloc, sloc, wk, histVars, unitVars, emitted, handles, crashed>>

on_scene_change_resets(m, scene_name) ==
  MapPut(m, scene_name, FrameBuffer(BufferSeconds, BufferFps))

\* on_scene_change, lines 915-918: the registry after the handler.
on_scene_change(m, scene_name) ==
  IF scene_name \in DOMAIN m THEN m
  ELSE MapPut(m, scene_name, FrameBuffer(BufferSeconds, BufferFps))

\* on_scene_change(OBS_FRONTEND_EVENT_SCENE_CHANGED), lines 903-919: the whole
\* handler, which tests no flag and waits for buffer_mutex at line 912.
OnSceneChange ==
  /\ At(UI, "idle")
  /\ handles[UI].src_acq < MaxChanges
  /\ buffer_mutex = NoThread
  /\ scene_buffers' = on_scene_change(scene_buffers, program)
  /\ handles' = [handles EXCEPT ![UI].src_acq = @ + 1,      \* line 906
                                ![UI].src_rel = @ + 1]      \* line 919
  /\ UNCHANGED <<plugin_enabled, plugin_fully_initialized, buffer_mutex, error_log,
                 previous_scene_name, heapVars, hostVars, thrVars, histVars, unitVars,
                 emitted, creates, crashed>>

\* The user makes another scene the program.
UserSwitchScene ==
  /\ ~crashed
  /\ nswitch < MaxSwitches
  /\ nswitch' = nswitch + 1
  /\ \E s \in SceneList \ {program} : program' = s
  /\ UNCHANGED <<coreVars, heapVars, replay_scene, replay_sink, video_capture,
                 audio_capture, thrVars, response, req, saves, events, worig, rebuilt,
                 ntoggle, nsave, unitVars, sinkVars, crashed>>

\* ------------------------------------------------------- raw video thread
\* raw_video_callback, lines 372-416: the enabled test and the scene name.
RawVideoEnter ==
  /\ At(VideoT, "idle")
  /\ video_capture > 0
  /\ next_vid <= MaxVideo
  /\ plugin_enabled
  /\ vloc' = [scene |-> program, frame |-> NullFrame]
  /\ Goto(VideoT, "v_lock")
  /\ handles' = [handles EXCEPT ![VideoT].src_acq = @ + 1]     \* line 388
  /\ UNCHANGED <<coreVars, heapVars, hostVars, aloc, sloc, wk, histVars, unitVars, emitted, creates, crashed>>

\* lines 418-463 and add_video_frame lines 104-111: lock, find or create the
\* ring, build the frame, and enter add_video_frame.
RawVideoLock ==
  /\ At(VideoT, "v_lock")
  /\ buffer_mutex = NoThread
  /\ \E d \in VoiDims, planes \in BOOLEAN :
       LET frame == VideoFrame(<<"v", next_vid>>, d[1], d[2], planes)
       IN /\ next_vid' = next_vid + 1
          /\ live' = IF planes THEN live \cup {frame.id} ELSE live
          /\ scene_buffers' =
               IF vloc.scene \in DOMAIN scene_buffers THEN scene_buffers
               ELSE MapPut(scene_buffers, vloc.scene, FrameBuffer(BufferSeconds, BufferFps))
          /\ IF admits_video(plugin_enabled, frame)
               THEN /\ buffer_mutex' = VideoT
                    /\ vloc' = [vloc EXCEPT !.frame = frame]
                    /\ Goto(VideoT, "v_relock")
                    /\ UNCHANGED handles
               ELSE /\ UNCHANGED buffer_mutex
                    /\ handles' = [handles EXCEPT ![VideoT].src_rel = @ + 1]   \* line 475
                    /\ vloc' = [scene |-> "", frame |-> NullFrame]
                    /\ Goto(VideoT, "idle")
  /\ UNCHANGED <<plugin_enabled, plugin_fully_initialized, error_log, previous_scene_name,
                 next_aid, hostVars, aloc, sloc, wk, histVars, unitVars, emitted, creates, crashed>>

\* add_video_frame line 113, reached with buffer_mutex owned since line 418,
\* then lines 117-136 and the return of both functions.
RawVideoRelock ==
  /\ At(VideoT, "v_relock")
  /\ \E o \in RelockOutcomes :
       CASE o = "deadlock" ->
              /\ Goto(VideoT, "deadlock")
              /\ UNCHANGED <<scene_buffers, live, buffer_mutex, vloc, handles, crashed>>
         [] o = "throw" ->
              /\ crashed' = TRUE
              /\ UNCHANGED <<scene_buffers, live, buffer_mutex, vloc, handles, pc>>
         [] o = "nested" ->
              LET r == add_video_frame(scene_buffers[vloc.scene], vloc.frame)
              IN /\ scene_buffers' = [scene_buffers EXCEPT ![vloc.scene] = r.fb]
                 /\ live' = live \ r.freed
                 /\ buffer_mutex' = NoThread
                 /\ vloc' = [scene |-> "", frame |-> NullFrame]
                 /\ Goto(VideoT, "idle")
                 /\ handles' = [handles EXCEPT ![VideoT].src_rel = @ + 1]  \* line 475
                 /\ UNCHANGED crashed
  /\ UNCHANGED <<plugin_enabled, plugin_fully_initialized, error_log, previous_scene_name,
                 next_vid, next_aid, hostVars, aloc, sloc, wk, histVars, unitVars, emitted, creates>>

\* ------------------------------------------------------------ audio thread
\* audio_callback, lines 336-339, for a delivery that is not muted.
AudioEnter ==
  /\ At(AudioT, "idle")
  /\ audio_capture
  /\ next_aid <= MaxAudio
  /\ plugin_enabled
  /\ \E name \in AudioSources : aloc' = name
  /\ Goto(AudioT, "a_lock")
  /\ UNCHANGED <<coreVars, heapVars, hostVars, vloc, sloc, wk, histVars, unitVars, sinkVars, crashed>>

\* lines 340-364: lock, look the ring up, copy the planes, add_audio_frame.
AudioLock ==
  /\ At(AudioT, "a_lock")
  /\ buffer_mutex = NoThread
  /\ IF aloc \in DOMAIN scene_buffers
       THEN \E planes \in BOOLEAN :
              LET frame == AudioFrame(<<"a", next_aid>>, 1, planes)
                  heap  == IF planes THEN live \cup {frame.id} ELSE live
                  r     == add_audio_frame(scene_buffers[aloc], frame)
              IN /\ next_aid' = next_aid + 1
                 /\ IF admits_audio(plugin_enabled, frame)
                      THEN /\ scene_buffers' = [scene_buffers EXCEPT ![aloc] = r.fb]
                           /\ live' = heap \ r.freed
                      ELSE /\ live' = heap
                           /\ UNCHANGED scene_buffers
       ELSE UNCHANGED <<scene_buffers, live, next_aid>>
  /\ aloc' = ""
  /\ Goto(AudioT, "idle")
  /\ UNCHANGED <<plugin_enabled, plugin_fully_initialized, buffer_mutex, error_log,
                 previous_scene_name, next_vid, hostVars, vloc, sloc, wk, histVars,
                 unitVars, sinkVars, crashed>>

\* audio_callback called with muted set or with a null audio: the entry.
AudioMuted ==
  /\ At(AudioT, "idle")
  /\ audio_capture
  /\ \E name \in AudioSources : aloc' = name
  /\ Goto(AudioT, "a_muted")
  /\ UNCHANGED <<coreVars, heapVars, hostVars, vloc, sloc, wk, histVars, unitVars, sinkVars, crashed>>

\* lines 336-337: the return.
AudioMutedReturn ==
  /\ At(AudioT, "a_muted")
  /\ aloc' = ""
  /\ Goto(AudioT, "idle")
  /\ UNCHANGED <<coreVars, heapVars, hostVars, vloc, sloc, wk, histVars, unitVars, sinkVars, crashed>>

\* -------------------------------------------------------- transport thread
NoScene == [success |-> FALSE, error |-> "No scene name provided"]
Success == [success |-> TRUE, error |-> "none"]

scene_missing_or_empty(scene) == scene = NullStr \/ scene = ""

\* on_replay_request line 744: the test that rejects the request.
scene_missing(scene) == scene = NullStr

\* on_replay_request: the whole handler.
ReplayRequest ==
  /\ At(WS, "idle")
  /\ req.n < MaxRequests
  /\ \E scene \in RequestScenes :
       /\ req' = [n |-> req.n + 1, scene |-> scene]
       /\ IF scene_missing(scene)
            THEN /\ response' = NoScene
                 /\ UNCHANGED <<replay_scene, replay_sink, pc, wk, creates>>
            ELSE /\ \E o \in CreateReplayOutcomes :
                      /\ replay_scene' = o.scene
                      /\ replay_sink' = o.sink
                      /\ Created(o)
                 /\ wk' = [wk EXCEPT ![Worker(req.n + 1)] = [NoLocals EXCEPT !.scene = scene]]
                 /\ Goto(Worker(req.n + 1), "w_save")
                 /\ response' = Success
  /\ UNCHANGED <<coreVars, heapVars, program, video_capture, audio_capture, vloc, aloc,
                 sloc, saves, events, worig, rebuilt, ntoggle, nswitch, nsave, unitVars,
                 emitted, handles, crashed>>

\* on_save_all_replays line 762: the lock.
SaveAllLock ==
  /\ At(WS, "idle")
  /\ nsave < MaxSaves
  /\ buffer_mutex = NoThread
  /\ buffer_mutex' = WS
  /\ nsave' = nsave + 1
  /\ sloc' = DOMAIN scene_buffers
  /\ saves' = <<>>
  /\ response' = [success |-> FALSE, error |-> "pending"]
  /\ Goto(WS, "s_loop")
  /\ UNCHANGED <<plugin_enabled, plugin_fully_initialized, scene_buffers, error_log,
                 previous_scene_name, heapVars, hostVars, vloc, aloc, wk, req, events,
                 worig, rebuilt, ntoggle, nswitch, unitVars, sinkVars, crashed>>

save_eligible_video_only(fb) == get_video_frames(fb) # <<>>

\* on_save_all_replays line 767.
save_eligible(fb) == get_video_frames(fb) # <<>> /\ get_audio_frames(fb) # <<>>

\* obs_source_output_audio / obs_source_output_video of element i of a
\* snapshot: the host reads the frame's plane buffers, which are intact if the
\* frame was built without planes or its planes are still allocated.
Output(via, kind, i, frame, heap) ==
  [via |-> via, kind |-> kind, index |-> i, id |-> frame.id,
   intact |-> (frame.data => frame.id \in heap)]

RECURSIVE output_loop_video_first(_, _, _, _, _)
output_loop_video_first(via, video_frames, audio_frames, i, heap) ==
  IF i > Len(video_frames) THEN <<>>
  ELSE (IF video_frames[i] # NullFrame
          THEN <<Output(via, "video", i, video_frames[i], heap)>> ELSE <<>>)
       \o (IF i <= Len(audio_frames) /\ audio_frames[i] # NullAudio
             THEN <<Output(via, "audio", i, audio_frames[i], heap)>> ELSE <<>>)
       \o output_loop_video_first(via, video_frames, audio_frames, i + 1, heap)

\* The loop of play_cached_frames (lines 646-660) and of save_frames_to_file
\* (lines 697-708) from element i on: what it outputs, in order.
RECURSIVE output_loop(_, _, _, _, _)
output_loop(via, video_frames, audio_frames, i, heap) ==
  IF i > Len(video_frames) THEN <<>>
  ELSE (IF i <= Len(audio_frames) /\ audio_frames[i] # NullAudio
          THEN <<Output(via, "audio", i, audio_frames[i], heap)>> ELSE <<>>)
       \o (IF video_frames[i] # NullFrame
             THEN <<Output(via, "video", i, video_frames[i], heap)>> ELSE <<>>)
       \o output_loop(via, video_frames, audio_frames, i + 1, heap)

\* what obs_output_create and obs_output_start do in save_frames_to_file
SaveOutcomes == {"saved", "create_failed", "start_failed"}

\* save_frames_to_file lines 676 and 691: the message it logs.
save_error(o, scene_name) ==
  <<IF o = "create_failed" THEN "Failed to create output for scene: "
                           ELSE "Failed to start output for scene: ", scene_name>>

\* std::map<std::string, FrameBuffer> is iterated in the order of its keys.
KeyOrder == <<"A", "B", REPLAY_SCENE_NAME>>
first_key(keys) ==
  KeyOrder[CHOOSE i \in 1..Len(KeyOrder) :
             KeyOrder[i] \in keys /\ \A j \in 1..(i - 1) : KeyOrder[j] \notin keys]

\* lines 763-770: one iteration of the loop, with save_frames_to_file.
SaveAllStep ==
  /\ At(WS, "s_loop")
  /\ sloc # {}
  /\ LET k == first_key(sloc) IN
       /\ sloc' = sloc \ {k}
       /\ IF save_eligible(scene_buffers[k])
            THEN \E o \in SaveOutcomes :
                   LET fb  == scene_buffers[k]
                       out == IF replay_sink
                                THEN output_loop("file", get_video_frames(fb),
                                                 get_audio_frames(fb), 1, live)
                                ELSE <<>>
                   IN /\ saves' = Append(saves, [scene |-> k, result |-> o])
                      /\ handles' =
                           [handles EXCEPT
                              ![WS].result  = o,
                              ![WS].out_acq = IF o = "create_failed" THEN @ ELSE @ + 1,
                              ![WS].out_rel = IF o = "saved" THEN @ + 1 ELSE @,
                              ![WS].src_acq = IF o = "saved" THEN @ + Len(out) ELSE @]
                      /\ Goto(WS, IF o = "saved" THEN "s_loop" ELSE "s_relock")
            ELSE UNCHANGED <<saves, pc, handles>>
  /\ UNCHANGED <<coreVars, heapVars, hostVars, vloc, aloc, wk, response, req, events,
                 worig, rebuilt, ntoggle, nswitch, nsave, unitVars, emitted, creates, crashed>>

\* save_frames_to_file lines 676 and 691: log_error locks buffer_mutex, which
\* this thread owns since line 762.
SaveAllRelock ==
  /\ At(WS, "s_relock")
  /\ \E o \in RelockOutcomes :
       CASE o = "deadlock" ->
              /\ Goto(WS, "deadlock")
              /\ UNCHANGED <<error_log, handles, crashed>>
         [] o = "throw" ->
              /\ crashed' = TRUE
              /\ UNCHANGED <<error_log, handles, pc>>
         [] o = "nested" ->
              /\ error_log' = log_error(error_log,
                     save_error(handles[WS].result, saves[Len(saves)].scene))
              /\ handles' = [handles EXCEPT ![WS].out_rel =       \* line 692
                                IF handles[WS].result = "start_failed" THEN @ + 1 ELSE @]
              /\ Goto(WS, "s_loop")
              /\ UNCHANGED crashed
  /\ UNCHANGED <<plugin_enabled, plugin_fully_initialized, scene_buffers, buffer_mutex,
                 previous_scene_name, heapVars, hostVars, vloc, aloc, sloc, wk, histVars,
                 unitVars, emitted, creates>>

\* line 771 and the return.
SaveAllReturn ==
  /\ At(WS, "s_loop")
  /\ sloc = {}
  /\ response' = Success
  /\ buffer_mutex' = NoThread
  /\ Goto(WS, "idle")
  /\ UNCHANGED <<plugin_enabled, plugin_fully_initialized, scene_buffers, error_log,
                 previous_scene_name, heapVars, hostVars, vloc, aloc, sloc, wk, req,
                 saves, events, worig, rebuilt, ntoggle, nswitch, nsave, unitVars, sinkVars, crashed>>

\* ------------------------------------------------- play_replay_and_return
Did(w, e) == events' = [events EXCEPT ![w] = Append(@, e)]

Emitted(w, outputs) == emitted' = [emitted EXCEPT ![w] = @ \o outputs]

\* lines 718-722.
WorkerSavePrevious(w) ==
  /\ At(w, "w_save")
  /\ previous_scene_name' = program
  /\ worig' = [worig EXCEPT ![w] = program]
  /\ Did(w, "save_previous")
  /\ Goto(w, "w_switch")
  /\ handles' = [handles EXCEPT ![w].src_acq = @ + 1, ![w].src_rel = @ + 1]
  /\ UNCHANGED <<plugin_enabled, plugin_fully_initialized, scene_buffers, buffer_mutex,
                 error_log, heapVars, hostVars, vloc, aloc, sloc, wk, response, req,
                 saves, rebuilt, ntoggle, nswitch, nsave, unitVars, emitted, creates, crashed>>

\* switch_to_scene(scene_name) as a step of worker w that moves it to loc:
\* the scene is made the program, or log_error takes buffer_mutex.
switch_to_scene(w, scene_name, loc) ==
  /\ IF SceneExists(scene_name)
       THEN /\ program' = scene_name
            /\ handles' = [handles EXCEPT ![w].src_acq = @ + 1, ![w].src_rel = @ + 1]
            /\ UNCHANGED error_log
       ELSE /\ buffer_mutex = NoThread
            /\ error_log' = log_error(error_log, <<"Scene not found: ", scene_name>>)
            /\ UNCHANGED <<program, handles>>
  /\ Goto(w, loc)

\* line 725.
WorkerSwitchToReplay(w) ==
  /\ At(w, "w_switch")
  /\ switch_to_scene(w, REPLAY_SCENE_NAME, "w_file")
  /\ Did(w, "switch_to_replay")
  /\ UNCHANGED <<plugin_enabled, plugin_fully_initialized, scene_buffers, buffer_mutex,
                 previous_scene_name, heapVars, replay_scene, replay_sink, video_capture,
                 audio_capture, vloc, aloc, sloc, wk, response, req, saves, worig,
                 rebuilt, ntoggle, nswitch, nsave, unitVars, emitted, creates, crashed>>

\* scene_buffers.find(scene_name) made without buffer_mutex (line 728): it
\* races with the video thread when that thread is inside its critical
\* section, and may then miss a key that is in the map.
unlocked_find(scene_name) ==
  {scene_name \in DOMAIN scene_buffers} \cup (IF buffer_mutex = VideoT THEN {FALSE} ELSE {})

\* lines 728-731 and save_frames_to_file up to line 694: the lookup and the
\* snapshots are taken without buffer_mutex.
WorkerFile(w) ==
  /\ At(w, "w_file")
  /\ \E found \in unlocked_find(wk[w].scene) :
     IF found
       THEN /\ Did(w, "play_file")
            /\ \E o \in SaveOutcomes :
                 /\ wk' = [wk EXCEPT ![w].video = get_video_frames(scene_buffers[wk[w].scene]),
                                     ![w].audio = get_audio_frames(scene_buffers[wk[w].scene]),
                                     ![w].msg = save_error(o, wk[w].scene)]
                 /\ handles' = [handles EXCEPT
                                  ![w].result  = o,
                                  ![w].out_acq = IF o = "create_failed" THEN @ ELSE @ + 1]
                 /\ Goto(w, IF o = "saved" THEN "w_file_emit" ELSE "w_file_log")
       ELSE /\ Goto(w, "w_play")
            /\ UNCHANGED <<wk, events, handles>>
  /\ UNCHANGED <<coreVars, heapVars, hostVars, vloc, aloc, sloc, response, req, saves,
                 worig, rebuilt, ntoggle, nswitch, nsave, unitVars, emitted, creates, crashed>>

\* save_frames_to_file lines 697-711: the paced loop over the snapshots, run
\* without buffer_mutex; each output looks the replay source up by name.
WorkerFileEmit(w) ==
  /\ At(w, "w_file_emit")
  /\ LET out == IF replay_sink
                  THEN output_loop("file", wk[w].video, wk[w].audio, 1, live)
                  ELSE <<>>
     IN /\ Emitted(w, out)
        /\ handles' = [handles EXCEPT ![w].src_acq = @ + Len(out),   \* lines 699, 703
                                      ![w].out_rel = @ + 1]          \* line 710
  /\ wk' = [wk EXCEPT ![w].video = <<>>, ![w].audio = <<>>, ![w].msg = <<>>]
  /\ Goto(w, "w_play")
  /\ UNCHANGED <<coreVars, heapVars, hostVars, vloc, aloc, sloc, histVars, unitVars,
                 creates, crashed>>

\* save_frames_to_file lines 676 and 691, from a thread that owns no lock.
WorkerFileLog(w) ==
  /\ At(w, "w_file_log")
  /\ buffer_mutex = NoThread
  /\ error_log' = log_error(error_log, wk[w].msg)
  /\ wk' = [wk EXCEPT ![w].video = <<>>, ![w].audio = <<>>, ![w].msg = <<>>]
  /\ Goto(w, "w_play")
  /\ handles' = [handles EXCEPT ![w].out_rel =                   \* line 692
                    IF handles[w].result = "start_failed" THEN @ + 1 ELSE @]
  /\ UNCHANGED <<plugin_enabled, plugin_fully_initialized, scene_buffers, buffer_mutex,
                 previous_scene_name, heapVars, hostVars, vloc, aloc, sloc, histVars,
                 unitVars, emitted, creates, crashed>>

\* play_cached_frames lines 619-642: the lock, the lookup, the snapshots and
\* the replay source.
WorkerPlayLock(w) ==
  /\ At(w, "w_play")
  /\ buffer_mutex = NoThread
  /\ buffer_mutex' = w
  /\ Did(w, "play_live")
  /\ LET scene == wk[w].scene
         found == scene \in DOMAIN scene_buffers
     IN IF ~found
          THEN /\ wk' = [wk EXCEPT ![w].msg = <<"No buffer found for scene: ", scene>>]
               /\ Goto(w, "w_play_relock")
        ELSE IF get_video_frames(scene_buffers[scene]) = <<>>
          THEN /\ wk' = [wk EXCEPT ![w].msg = <<"No video frames cached for scene: ", scene>>]
               /\ Goto(w, "w_play_relock")
        ELSE IF ~replay_sink
          THEN /\ wk' = [wk EXCEPT ![w].msg = <<"Replay source not found", "">>]
               /\ Goto(w, "w_play_relock")
        ELSE /\ wk' = [wk EXCEPT ![w].video = get_video_frames(scene_buffers[scene]),
                                 ![w].audio = get_audio_frames(scene_buffers[scene])]
             /\ Goto(w, "w_play_emit")
  /\ handles' = [handles EXCEPT ![w].src_acq =                      \* line 638
                    IF /\ wk[w].scene \in DOMAIN scene_buffers
                       /\ get_video_frames(scene_buffers[wk[w].scene]) # <<>>
                       /\ replay_sink
                      THEN @ + 1 ELSE @]
  /\ UNCHANGED <<plugin_enabled, plugin_fully_initialized, scene_buffers, error_log,
                 previous_scene_name, heapVars, hostVars, vloc, aloc, sloc, response, req,
                 saves, worig, rebuilt, ntoggle, nswitch, nsave, unitVars, emitted, creates, crashed>>

\* lines 647-665: the paced loop, run with buffer_mutex owned, and the return.
WorkerPlayEmit(w) ==
  /\ At(w, "w_play_emit")
  /\ Emitted(w, output_loop("live", wk[w].video, wk[w].audio, 1, live))
  /\ buffer_mutex' = NoThread
  /\ wk' = [wk EXCEPT ![w].video = <<>>, ![w].audio = <<>>]
  /\ Goto(w, "w_back")
  /\ handles' = [handles EXCEPT ![w].src_rel = @ + 1]              \* line 664
  /\ UNCHANGED <<plugin_enabled, plugin_fully_initialized, scene_buffers, error_log,
                 previous_scene_name, heapVars, hostVars, vloc, aloc, sloc, histVars,
                 unitVars, creates, crashed>>

\* lines 622, 633, 640: log_error locks buffer_mutex, owned since line 619.
WorkerPlayRelock(w) ==
  /\ At(w, "w_play_relock")
  /\ \E o \in RelockOutcomes :
       CASE o = "deadlock" ->
              /\ Goto(w, "deadlock")
              /\ UNCHANGED <<error_log, buffer_mutex, wk, crashed>>
         [] o = "throw" ->
              /\ crashed' = TRUE
              /\ UNCHANGED <<error_log, buffer_mutex, wk, pc>>
         [] o = "nested" ->
              /\ error_log' = log_error(error_log, wk[w].msg)
              /\ buffer_mutex' = NoThread
              /\ wk' = [wk EXCEPT ![w].msg = <<>>]
              /\ Goto(w, "w_back")
              /\ UNCHANGED crashed
  /\ UNCHANGED <<plugin_enabled, plugin_fully_initialized, scene_buffers,
                 previous_scene_name, heapVars, hostVars, vloc, aloc, sloc, histVars,
                 unitVars, sinkVars>>

\* line 736.
WorkerSwitchBack(w) ==
  /\ At(w, "w_back")
  /\ switch_to_scene(w, previous_scene_name, "done")
  /\ Did(w, "switch_back")
  /\ UNCHANGED <<plugin_enabled, plugin_fully_initialized, scene_buffers, buffer_mutex,
                 previous_scene_name, heapVars, replay_scene, replay_sink, video_capture,
                 audio_capture, vloc, aloc, sloc, wk, response, req, saves, worig,
                 rebuilt, ntoggle, nswitch, nsave, unitVars, emitted, creates, crashed>>

WorkerStep ==
  \E w \in Workers :
    \/ WorkerSavePrevious(w) \/ WorkerSwitchToReplay(w)
    \/ WorkerFile(w) \/ WorkerFileEmit(w) \/ WorkerFileLog(w)
    \/ WorkerPlayLock(w) \/ WorkerPlayEmit(w) \/ WorkerPlayRelock(w)
    \/ WorkerSwitchBack(w)

\* ------------------------------------------------------- specifications
Lifecycle == \/ SetPluginEnabled(TRUE) \/ SetPluginEnabled(FALSE)
             \/ UpdateSceneBuffers \/ ClearSceneBuffers \/ FinishedLoading
RawVideo  == RawVideoEnter \/ RawVideoLock \/ RawVideoRelock
Audio     == AudioEnter \/ AudioLock
SaveAll   == SaveAllLock \/ SaveAllStep \/ SaveAllRelock \/ SaveAllReturn

Next == Lifecycle \/ UserSwitchScene \/ RawVideo \/ Audio \/ ReplayRequest \/ SaveAll
        \/ WorkerStep

Spec == Init /\ [][Next]_vars

\* The enable switch and the capture callbacks.
NextLife == Lifecycle \/ RawVideo \/ Audio
SpecLife == Init /\ [][NextLife]_vars

\* ReplayScene requests and their workers, over rings fed by the video thread.
NextReplay == FinishedLoading \/ UpdateSceneBuffers \/ RawVideo \/ ReplayRequest
              \/ WorkerStep
SpecReplay == Init /\ [][NextReplay]_vars

\* SaveAllReplays over rings fed by both capture callbacks.
NextSave == FinishedLoading \/ UpdateSceneBuffers \/ UserSwitchScene \/ RawVideo
            \/ Audio \/ SaveAll
SpecSave == Init /\ [][NextSave]_vars

\* The enable switch and the capture callbacks, with the audio deliveries
\* that the host makes muted.
NextAudio == Lifecycle \/ RawVideo \/ Audio \/ AudioMuted \/ AudioMutedReturn
SpecAudio == Init /\ [][NextAudio]_vars

\* The enable switch, scene switches and the video callback, with
\* on_scene_change given to the host as its handler of frontend events (the
\* code names it to the host only in obs_module_unload, line 1040).
NextScene == Lifecycle \/ UserSwitchScene \/ RawVideo \/ OnSceneChange
SpecScene == Init /\ [][NextScene]_vars

\* One ReplayScene request is still to come: the earlier ones carried no
\* scene name and were rejected at line 744.
InitPlay ==
  /\ InitBase
  /\ plugin_enabled = TRUE
  /\ scene_buffers = EmptyMap
  /\ replay_scene \in BOOLEAN
  /\ NoCreates
  /\ req = [n |-> MaxRequests - 1, scene |-> NullStr]
  /\ response = IF MaxRequests > 1 THEN NoScene ELSE [success |-> FALSE, error |-> "none"]

\* One ReplayScene request and its worker, over rings fed by both capture
\* callbacks.
NextPlay == FinishedLoading \/ UpdateSceneBuffers \/ RawVideo \/ Audio \/ ReplayRequest
            \/ WorkerStep
SpecPlay == InitPlay /\ [][NextPlay]_vars

\* One ReplayScene request and its worker, while the engine is switched off
\* and on.
NextSnap == Lifecycle \/ RawVideo \/ ReplayRequest \/ WorkerStep
SpecSnap == InitPlay /\ [][NextSnap]_vars

\* log_error driven by a single caller that owns no lock.
Messages == {<<"Scene not found: ", "A">>, <<"Replay source not found", "">>}

InitLog ==
  /\ InitCommon
  /\ plugin_enabled = TRUE
  /\ scene_buffers = EmptyMap
  /\ replay_scene = FALSE
  /\ NoCreates

\* A call log_error(message): lines 204-208, the lock taken and released.
LogError ==
  /\ ~crashed
  /\ Len(logged) < MaxLogs
  /\ buffer_mutex = NoThread
  /\ \E message \in Messages :
       /\ error_log' = log_error(error_log, message)
       /\ logged' = Append(logged, message)
  /\ UNCHANGED <<plugin_enabled, plugin_fully_initialized, scene_buffers, buffer_mutex,
                 previous_scene_name, heapVars, hostVars, thrVars, histVars, last_op,
                 calls, sinkVars, crashed>>

SpecLog == InitLog /\ [][LogError]_vars

\* ------------------------------------------------------------------ claims
VideoCalls == SelectSeq(calls, LAMBDA c : c.name = "add_video_frame")
LastN(s, n) == IF Len(s) <= n THEN s ELSE SubSeq(s, Len(s) - n + 1, Len(s))

\* C1: a ring built with max_frames = seconds x fps > 0 never holds more than
\* max_frames video frames nor more than max_frames audio frames, whatever
\* add_video_frame and add_audio_frame calls were made on it.
C1_RingBounded ==
  \A k \in DOMAIN scene_buffers :
    scene_buffers[k].max_frames > 0 =>
      /\ Len(scene_buffers[k].video_frames) <= scene_buffers[k].max_frames
      /\ Len(scene_buffers[k].audio_frames) <= scene_buffers[k].max_frames

\* C1 witness: a full ring has taken one more video and one more audio frame.
C1_Witness ==
  /\ TheRing.max_frames > 0
  /\ Len(TheRing.video_frames) = TheRing.max_frames
  /\ Len(TheRing.audio_frames) = TheRing.max_frames
  /\ Len(VideoCalls) > TheRing.max_frames
  /\ Len(calls) - Len(VideoCalls) > TheRing.max_frames

\* Only valid video admissions were made, with the engine enabled, and the
\* ring was never cleared.
OnlyValidVideo ==
  /\ plugin_enabled
  /\ \A i \in 1..Len(calls) :
       /\ calls[i].name # "clear"
       /\ calls[i].name = "add_video_frame" =>
            calls[i].frame # NullFrame /\ video_valid(calls[i].frame)

\* C2: with the engine enabled, after N + k valid video admissions on a ring
\* of capacity N > 0 the video sequence is the last N admitted frames in
\* admission order, and the planes of the k older frames are released.
C2_LastNInOrder ==
  (OnlyValidVideo /\ TheRing.max_frames > 0) =>
    LET adm == [i \in 1..Len(VideoCalls) |-> VideoCalls[i].frame]
        N   == TheRing.max_frames
    IN /\ TheRing.video_frames = LastN(adm, N)
       /\ \A i \in 1..Len(adm) : i <= Len(adm) - N => adm[i].id \notin live

\* C2 witness: N + k admissions with k >= 2 on a ring that holds N > 0
\* frames, the oldest of them built with plane buffers.
C2_Witness ==
  /\ OnlyValidVideo
  /\ TheRing.max_frames > 0
  /\ Len(VideoCalls) >= TheRing.max_frames + 2
  /\ VideoCalls[1].frame.data

\* C3: admitting a video frame whose width or height is zero leaves the
\* video sequence as it was, also on a ring that is at capacity.
C3_InvalidLeavesVideo ==
  [][ (/\ last_op'.name = "add_video_frame"
       /\ last_op' # last_op
       /\ scene_buffers[RingKey].max_frames > 0
       /\ last_op'.frame # NullFrame
       /\ ~video_valid(last_op'.frame))
      => scene_buffers'[RingKey].video_frames = scene_buffers[RingKey].video_frames ]_vars

\* A worker or handler that has returned, or that can never take another step.
Ended == {"done", "deadlock"}
Order == <<"save_previous", "switch_to_replay", "play_file", "play_live", "switch_back">>
Position(e) == CHOOSE i \in 1..Len(Order) : Order[i] = e
InOrder(ev) == \A i, j \in 1..Len(ev) : i < j => Position(ev[i]) < Position(ev[j])

\* C4: when play_replay_and_return ends, the program scene is the scene that
\* was the program when it started, whether playback succeeded or failed.
C4_ProgramRestored ==
  [][ \A w \in Workers :
        (pc[w] \notin Ended /\ pc'[w] \in Ended) => program' = worig[w] ]_vars

\* C5: a worker's events are in the order save previous, switch to Replay,
\* play (file, then live), switch back, and a worker that has ended has
\* performed the switch-back.
C5_OrderThenSwitchBack ==
  \A w \in Workers :
    /\ InOrder(events[w])
    /\ pc[w] \in Ended =>
         events[w] # <<>> /\ events[w][Len(events[w])] = "switch_back"

\* C6: a ReplayScene request whose scene is missing or empty is answered
\* success=false, error "No scene name provided", spawns no worker and
\* switches no scene.
C6_EmptySceneRejected ==
  [][ (req'.n # req.n /\ scene_missing_or_empty(req'.scene))
      => (response' = NoScene /\ pc' = pc /\ program' = program) ]_vars

BothNonEmpty(k) ==
  scene_buffers[k].video_frames # <<>> /\ scene_buffers[k].audio_frames # <<>>

\* C7: when SaveAllReplays returns it has run the file save exactly once for
\* each ring with non-empty video and non-empty audio, for no other ring,
\* and the response is success=true.
C7_SaveAllExact ==
  [][ (pc[WS] = "s_loop" /\ pc'[WS] = "idle")
      => /\ response' = Success
         /\ \A i, j \in 1..Len(saves) : saves[i].scene = saves[j].scene => i = j
         /\ {saves[i].scene : i \in 1..Len(saves)}
              = {k \in DOMAIN scene_buffers : BothNonEmpty(k)} ]_vars

\* C7 witness: SaveAllReplays has returned after saving one ring and passing
\* over another one.
C7_Witness ==
  /\ pc[WS] = "idle" /\ nsave > 0 /\ response = Success
  /\ Len(saves) = 1 /\ saves[1].result = "saved"
  /\ \E k \in DOMAIN scene_buffers : k # saves[1].scene /\ ~BothNonEmpty(k)

\* C8: after the file save of a ring has failed, SaveAllReplays still visits
\* every remaining ring and returns its response.
C8_SaveAllSurvivesFailure ==
  (/\ \E i \in 1..Len(saves) : saves[i].result # "saved"
   /\ pc[WS] \notin {"s_loop", "s_relock"})
  => (pc[WS] = "idle" /\ sloc = {} /\ response = Success)

\* C9: a rebuild by update_scene_buffers leaves the registry keyed by exactly
\* the host's scenes, every ring empty with capacity 1800, and the planes of
\* every frame of the prior rings released.
C9_RebuildExact ==
  [][ rebuilt'.n # rebuilt.n
      => /\ DOMAIN scene_buffers' = SceneList'
         /\ \A k \in DOMAIN scene_buffers' :
              scene_buffers'[k] = [video_frames |-> <<>>, audio_frames |-> <<>>,
                                   max_frames |-> 1800]
         /\ AllRingIds(scene_buffers) \cap live' = {} ]_vars

\* C9 witness: a rebuild has destroyed rings that held frames.
C9_Witness == rebuilt.n > 0 /\ rebuilt.prior # {} /\ pc[UI] = "idle"

\* C10: once set_plugin_enabled(false) has completed, every ring is empty,
\* whatever callbacks were in flight when the flag was cleared.
C10_DisabledStoresNothing ==
  (~plugin_enabled /\ pc[UI] = "idle") =>
    \A k \in DOMAIN scene_buffers :
      scene_buffers[k].video_frames = <<>> /\ scene_buffers[k].audio_frames = <<>>

\* C10 witness: the disable has completed and a raw_video_callback that had
\* passed its enabled test before it has since run to its end.
C10_Witness ==
  /\ ~plugin_enabled /\ pc[UI] = "idle"
  /\ pc[VideoT] = "idle" /\ next_vid > 1
  /\ DOMAIN scene_buffers # {}

\* C11: every frame that the file-save loop or the playback loop outputs from
\* a snapshot still has its plane buffers at the moment it is output, whatever
\* admissions, evictions, clears or disables happened after the snapshot was
\* taken.
C11_SnapshotStable ==
  \A w \in Workers : \A i \in 1..Len(emitted[w]) : emitted[w][i].intact

\* The positions at which a thread is inside a paced output loop: the 33 ms
\* loop of play_cached_frames and the 16 ms loop of save_frames_to_file.
Pacing == {"w_play_emit", "w_file_emit"}

\* C12: no thread owns buffer_mutex while it is in a pacing sleep of an output
\* loop; the mutex is held only to mutate or to take a snapshot.
C12_NoLockWhilePacing ==
  \A t \in Threads : pc[t] \in Pacing => buffer_mutex # t

\* C13: a step that reads or changes the registry, or appends to error_log,
\* is taken by the thread that owns buffer_mutex or while no thread owns it
\* (the step then takes and releases it): no thread touches the registry
\* while another thread is inside its critical section.
C13_RegistryUnderLock ==
  [][ LET touched == \/ scene_buffers' # scene_buffers
                     \/ error_log' # error_log
                     \/ \E w \in Workers : pc[w] = "w_file" /\ pc'[w] # "w_file"
      IN (touched /\ buffer_mutex # NoThread)
           => (pc'[buffer_mutex] # pc[buffer_mutex] \/ buffer_mutex' # buffer_mutex) ]_vars

\* play_cached_frames found no ring for worker w's scene: it is at the
\* log_error of line 622, or stopped there.
SceneUnknown(w) ==
  /\ wk[w].msg # <<>>
  /\ wk[w].msg[1] = "No buffer found for scene: "

LiveOutputs(w) == SelectSeq(emitted[w], LAMBDA e : e.via = "live")

\* C14: play_cached_frames on a scene that has no ring outputs nothing to the
\* replay sink and returns to its caller, which goes on to the switch-back.
C14_SceneUnknownReturns ==
  \A w \in Workers :
    SceneUnknown(w) =>
      /\ LiveOutputs(w) = <<>>
      /\ ~crashed
      /\ pc[w] # "deadlock"

\* C15: create_replay_scene_and_source is idempotent: whatever number of calls
\* was made, the host holds at most one scene named "Replay" and at most one
\* source named "ReplaySource", and a call made when the scene exists
\* creates nothing and leaves scene and sink as they are.
C15_CreateIdempotent ==
  [][ creates'.calls # creates.calls
      => /\ creates'.scenes <= 1
         /\ creates'.sinks <= 1
         /\ replay_scene => /\ creates'.scenes = creates.scenes
                             /\ creates'.sinks = creates.sinks
                             /\ replay_scene' /\ replay_sink' = replay_sink ]_vars

\* C15 witness: two calls were made, the first of which created the scene
\* and its sink.
C15_Witness ==
  creates = [calls |-> 2, scenes |-> 1, sinks |-> 1] /\ replay_scene /\ replay_sink

\* No call of set_plugin_enabled, raw_video_callback or audio_callback is
\* in progress.
Quiescent == pc[UI] = "idle" /\ pc[VideoT] = "idle" /\ pc[AudioT] = "idle"

\* C16: no plane buffer is live before the first enable, and every enable,
\* deliveries, disable cycle returns the number of live plane buffers to its
\* value before the enable: whenever the engine is disabled and no callback
\* is in progress, no plane buffer is live.
C16_CycleRestoresBaseline ==
  (~plugin_enabled /\ Quiescent) => live = {}

\* C17: a ring built with capacity max_frames = 0 accepts no frame: after any
\* sequence of admissions the calls have returned, both sequences are empty
\* and so are the snapshots.
C17_ZeroCapacityStaysEmpty ==
  TheRing.max_frames = 0 =>
    /\ ~crashed
    /\ TheRing.video_frames = <<>> /\ TheRing.audio_frames = <<>>
    /\ get_video_frames(TheRing) = <<>> /\ get_audio_frames(TheRing) = <<>>

\* Nothing has happened since obs_module_load returned.
JustLoaded ==
  ntoggle = 0 /\ ~plugin_fully_initialized /\ Quiescent /\ pc[WS] = "idle" /\ req.n = 0

\* C18: the engine starts Disabled and the set_plugin_enabled(true) of
\* obs_module_load is the Disabled -> Enabled transition: when the load has
\* returned with the engine enabled, the rings of all scenes have been built
\* and video and audio capture have been started.
C18_LoadEnables ==
  (JustLoaded /\ plugin_enabled) =>
    /\ DOMAIN scene_buffers = SceneList
    /\ video_capture > 0
    /\ audio_capture

\* The step with which the FINISHED_LOADING handler returns: the return of
\* line 965, or the end of the handler after update_scene_buffers.
FinishedLoadingReturns ==
  /\ pc'[UI] = "idle"
  /\ \/ pc[UI] = "f_update"
     \/ ~plugin_fully_initialized /\ plugin_fully_initialized'

\* C19: when the FINISHED_LOADING handler returns, the registry holds a ring
\* for every scene whether the engine is enabled or not, and the handler has
\* started video and audio capture if and only if the engine is enabled.
C19_FinishedLoadingRebuilds ==
  [][ FinishedLoadingReturns
      => /\ DOMAIN scene_buffers' = SceneList'
         /\ plugin_enabled => (video_capture' > video_capture /\ audio_capture')
         /\ ~plugin_enabled => (video_capture' = video_capture
                                 /\ audio_capture' = audio_capture) ]_vars

Min(a, b) == IF a < b THEN a ELSE b

\* What worker w outputs in the step that runs the loop of play_cached_frames.
LiveRun(w) == SubSeq(emitted'[w], Len(emitted[w]) + 1, Len(emitted'[w]))

C21_ErrorLogBounded ==
  /\ Len(error_log) <= max_errors
  /\ Len(error_log) = Min(Len(logged), max_errors)
  /\ error_log = LastN(logged, max_errors)

\* more than 10 calls have been made and the oldest message has been dropped
C21_Witness ==
  /\ Len(logged) > max_errors
  /\ Len(error_log) = max_errors
  /\ logged[1] # logged[Len(logged) - max_errors + 1]
  /\ error_log[1] = logged[Len(logged) - max_errors + 1]

\* C22: every frame retained in a ring has non-null plane buffers, and has
\* positive dimensions if it is a video frame, a positive sample count if it
\* is an audio frame.
C22_RetainedFramesValid ==
  \A k \in DOMAIN scene_buffers :
    /\ \A i \in 1..Len(scene_buffers[k].video_frames) :
         LET f == scene_buffers[k].video_frames[i]
         IN f.data /\ f.width > 0 /\ f.height > 0
    /\ \A i \in 1..Len(scene_buffers[k].audio_frames) :
         LET f == scene_buffers[k].audio_frames[i]
         IN f.data /\ f.frames > 0

\* C23: a frame that add_video_frame drops, because the engine is disabled or
\* a dimension is zero, has its plane buffers released: once the call has
\* returned no plane buffer of that frame is live.
C23_DroppedFrameReleased ==
  (/\ last_op.name = "add_video_frame"
   /\ last_op.frame # NullFrame
   /\ ~plugin_enabled \/ ~video_valid(last_op.frame)) =>
    last_op.frame.id \notin live

\* the thread's call of save_frames_to_file is waiting for buffer_mutex in
\* log_error, which another thread may still release
InLogError(t) == pc[t] \in {"w_file_log", "s_relock"}

\* C24: if the muxer output fails to start, save_frames_to_file outputs no
\* audio and no video frame to the sink and releases the output handle
\* exactly once: once the call is past log_error, every output handle the
\* thread has created has been released once and a worker has output nothing
\* by way of the file path.
C24_StartFailureReleases ==
  \A t \in Workers \cup {WS} :
    (handles[t].result = "start_failed" /\ ~crashed /\ ~InLogError(t)) =>
      /\ handles[t].out_rel = handles[t].out_acq
      /\ t \in Workers => \A i \in 1..Len(emitted[t]) : emitted[t][i].via # "file"

\* C25: every reference the code takes from the host is released exactly
\* once: whenever a thread is in none of raw_video_callback,
\* on_save_all_replays and play_replay_and_return (with the functions it
\* calls), it has released as many sources and as many outputs as it has
\* acquired.
C25_HandlesBalanced ==
  \A t \in Threads :
    pc[t] \in {"idle", "done"} =>
      /\ handles[t].src_rel = handles[t].src_acq
      /\ handles[t].out_rel = handles[t].out_acq

\* a step of the SceneChanged handler
SceneChanged == handles'[UI].src_acq = handles[UI].src_acq + 1

\* C26: the SceneChanged handler is an idempotent ensure.  If the current
\* scene has a ring, the registry and every ring are unchanged; otherwise one
\* empty ring of capacity 1800 is added under the scene's name and every
\* other ring is unchanged; handling the event again changes nothing more.
C26_EnsureIdempotent ==
  [][SceneChanged =>
       /\ IF program \in DOMAIN scene_buffers
            THEN scene_buffers' = scene_buffers
            ELSE /\ DOMAIN scene_buffers' = DOMAIN scene_buffers \cup {program}
                 /\ scene_buffers'[program] =
                      [video_frames |-> <<>>, audio_frames |-> <<>>, max_frames |-> 1800]
                 /\ \A k \in DOMAIN scene_buffers : scene_buffers'[k] = scene_buffers[k]
       /\ on_scene_change(scene_buffers', program) = scene_buffers'
       /\ live' = live]_vars

\* the handler has run twice, and the ring of the current scene holds a frame
C26_Witness ==
  /\ handles[UI].src_acq = 2
  /\ handles[UI].src_rel = 2
  /\ program \in DOMAIN scene_buffers
  /\ scene_buffers[program].video_frames # <<>>
  /\ next_vid > MaxVideo

\* a call of audio_callback returns
AudioReturns == pc[AudioT] \in {"a_lock", "a_muted"} /\ pc'[AudioT] = "idle"

\* C27: an audio delivery that is muted, that finds the engine disabled, or
\* that names a source without a ring leaves the registry and every ring
\* unchanged; any other delivery appends one audio frame to the ring of its
\* source and changes nothing else in the registry.
C27_AudioDeliveryEffect ==
  [][AudioReturns =>
       IF pc[AudioT] = "a_muted" \/ ~plugin_enabled \/ aloc \notin DOMAIN scene_buffers
         THEN scene_buffers' = scene_buffers
         ELSE LET old == scene_buffers[aloc]
                  new == scene_buffers'[aloc]
              IN /\ DOMAIN scene_buffers' = DOMAIN scene_buffers
                 /\ \A k \in DOMAIN scene_buffers \ {aloc} :
                      scene_buffers'[k] = scene_buffers[k]
                 /\ new.video_frames = old.video_frames
                 /\ new.max_frames = old.max_frames
                 /\ Len(new.audio_frames) > 0
                 /\ new.audio_frames[Len(new.audio_frames)].id = <<"a", next_aid>>
                 /\ \/ new.audio_frames = Append(old.audio_frames,
                                                  new.audio_frames[Len(new.audio_frames)])
                    \/ /\ audio_full(old)
                       /\ new.audio_frames = Append(Tail(old.audio_frames),
                                                    new.audio_frames[Len(new.audio_frames)])]_vars

\* a muted delivery is being made for a source whose ring holds an audio
\* frame, while another ring holds a video frame
C27_Witness ==
  /\ pc[AudioT] = "a_muted"
  /\ aloc \in DOMAIN scene_buffers
  /\ scene_buffers[aloc].audio_frames # <<>>
  /\ \E k \in DOMAIN scene_buffers \ {aloc} : scene_buffers[k].video_frames # <<>>

\* a step of the FINISHED_LOADING handler, which calls
\* create_replay_scene_and_source and goes on to update_scene_buffers only if
\* the call returned true
HandlerCreates == ~plugin_fully_initialized /\ plugin_fully_initialized'

\* C28: whenever create_replay_scene_and_source returns true, the Replay
\* scene and the ReplaySource sink both exist; whenever it returns false, it
\* has added neither a scene nor a sink to the host.
C28_CreateAllOrNothing ==
  [][HandlerCreates =>
       IF pc'[UI] = "f_update"
         THEN replay_scene' /\ replay_sink'
         ELSE /\ replay_scene' = replay_scene
              /\ replay_sink' = replay_sink
              /\ creates'.scenes = creates.scenes
              /\ creates'.sinks = creates.sinks]_vars

\* C29: every raw-video delivery made while the engine is enabled terminates
\* with buffer_mutex released: raw_video_callback is never blocked for ever
\* inside add_video_frame with the mutex owned, and never ends the process
\* there.
C29_VideoDeliveryTerminates ==
  /\ pc[VideoT] # "deadlock"
  /\ ~(crashed /\ pc[VideoT] = "v_relock")

\* C30: log_error, which locks buffer_mutex, is never called by a thread that
\* owns buffer_mutex: no thread that owns the mutex is at a call of log_error.
C30_LogErrorWithoutLock ==
  \A t \in Threads :
    buffer_mutex = t => pc[t] \notin {"w_play_relock", "s_relock", "w_file_log"}

\* C31: in every reachable state raw_video_callback is registered with the
\* host at most once, and it is not registered while the engine is disabled.
C31_CaptureRegisteredOnce ==
  /\ video_capture <= 1
  /\ ~plugin_enabled => video_capture = 0

\* C32: whenever the engine is disabled and set_plugin_enabled(false) has
\* completed, the registry scene_buffers is empty: no ring is created while
\* the engine is disabled.
C32_DisabledRegistryEmpty ==
  (~plugin_enabled /\ pc[UI] = "idle") => DOMAIN scene_buffers = {}

\* every ReplayScene worker that was started has returned
AllWorkersDone ==
  /\ \A w \in Workers : pc[w] \in {"idle", "done"}
  /\ \E w \in Workers : pc[w] = "done"

\* C33: after any number of overlapping ReplayScene workers have all
\* finished, the program scene is not the Replay scene, and the shared
\* previous_scene_name does not hold "Replay".
C33_NotLeftOnReplay ==
  AllWorkersDone =>
    /\ program # REPLAY_SCENE_NAME
    /\ previous_scene_name # REPLAY_SCENE_NAME
====
